---- MODULE Spec2Model ----
(***************************************************************************)
(* Tool-result rendering of the CLI: ToolResultDisplay (character cap,     *)
(* line-aware truncation, dispatch on the payload's shape), AnsiOutputText *)
(* (trailing window of a styled document, URL tokens) and LinkifiedText    *)
(* (URL / non-URL segments of a plain text).                               *)
(*                                                                         *)
(* A JavaScript string is a sequence of one-character strings; its length  *)
(* is Len.  An optional number (a prop that may be undefined) is a         *)
(* sequence of length at most one: << >> is undefined, <<n>> is n.         *)
(***************************************************************************)
EXTENDS Integers, Sequences, FiniteSets, TLC

VARIABLES
    props,        \* the props of the last ToolResultDisplay render
    isAlternateBuffer, \* what useAlternateBuffer() returned in that render
    memo,         \* React.useMemo cell of truncatedResultDisplay: deps and value
    rendered,     \* what the last ToolResultDisplay render returned
    seg,          \* the last stand-alone LinkifiedText / renderToken render
    ansi,         \* the last stand-alone AnsiOutputText render
    lastIndex     \* lastIndex of the module-level global-flag URL_REGEX objects

vars == <<props, isAlternateBuffer, memo, rendered, seg, ansi, lastIndex>>

-----------------------------------------------------------------------------
(* Program constants *)

STATIC_HEIGHT == 1
RESERVED_LINE_COUNT == 5
MINIMUM_MAX_HEIGHT == 2
MAXIMUM_RESULT_DISPLAY_CHARACTERS == 20000
combinedPaddingAndBorderWidth == 4
DEFAULT_HEIGHT == 24

(* Bounds of the model *)

MaxLen == 4          \* short texts: every string over {a, \n} up to this length
MaxLines == 26       \* styled documents have up to this many lines
MaxBody == 3         \* texts with URLs have up to this many pieces after the scheme
CapSlack == 1        \* long texts reach this many characters beyond the cap
MaxSeq == 3          \* texts rendered one after another have up to this many pieces

-----------------------------------------------------------------------------
(* JavaScript helpers *)

Max(a, b) == IF a >= b THEN a ELSE b
Min(a, b) == IF a <= b THEN a ELSE b

\* Math.ceil(a / b) for a >= 0, b > 0
CeilDiv(a, b) == (a + b - 1) \div b

Undefined == << >>
Some(n) == <<n>>
IsPresent(opt) == Len(opt) = 1
\* truthiness of an optional number: undefined and 0 are falsy
Truthy(opt) == Len(opt) = 1 /\ opt[1] # 0

LF == "\n"
Dots == <<".", ".", ".">>
Fill(n) == [i \in 1..n |-> "a"]

\* s.slice(-k) for k > 0: the last k elements (all of s when k >= length)
SliceLast(s, k) == SubSeq(s, Max(1, Len(s) - k + 1), Len(s))

\* s.slice(start) for 0 <= start
SliceFrom(s, start) == SubSeq(s, start + 1, Len(s))

\* text.split('\n'): positions of the line breaks, then the pieces between
LineBreaks(text) == {i \in 1..Len(text) : text[i] = LF}

\* the k-th of the n line breaks brk, with 0 before the text and Len + 1 after it
BreakAt(text, brk, n, k) ==
    IF k = 0 THEN 0
    ELSE IF k = n + 1 THEN Len(text) + 1
    ELSE CHOOSE p \in brk : Cardinality({q \in brk : q <= p}) = k

PiecesBetween(text, brk, n) ==
    [k \in 1..(n + 1) |->
        SubSeq(text, BreakAt(text, brk, n, k - 1) + 1, BreakAt(text, brk, n, k) - 1)]

PiecesAt(text, brk) == PiecesBetween(text, brk, Cardinality(brk))

SplitLines(text) == PiecesAt(text, LineBreaks(text))

\* lines.join('\n')
RECURSIVE JoinLines(_)
JoinLines(lines) ==
    IF Len(lines) = 0 THEN << >>
    ELSE IF Len(lines) = 1 THEN lines[1]
    ELSE lines[1] \o <<LF>> \o JoinLines(Tail(lines))

-----------------------------------------------------------------------------
(* ToolResultDisplay: the height budget and the truncation *)

\* availableHeight, from the availableTerminalHeight prop
availableHeight(availableTerminalHeight) ==
    IF Truthy(availableTerminalHeight)
    THEN Some(Max(availableTerminalHeight[1] - STATIC_HEIGHT - RESERVED_LINE_COUNT,
                  MINIMUM_MAX_HEIGHT + 1))
    ELSE Undefined

childWidth(terminalWidth) == terminalWidth - combinedPaddingAndBorderWidth

\* Math.ceil(Math.max(1, line.length) / childWidth), for childWidth # 0;
\* a negative width gives a quotient <= 0, whose ceiling is -floor(m / |w|)
lineVisualHeight(line, width) ==
    IF width > 0 THEN CeilDiv(Max(1, Len(line)), width)
    ELSE 0 - (Max(1, Len(line)) \div (0 - width))

\* currentHeight + lineVisualHeight > availableHeight; with childWidth = 0 the
\* division gives Infinity, which exceeds every height
Overflows(currentHeight, line, width, height) ==
    IF width = 0 THEN TRUE
    ELSE currentHeight + lineVisualHeight(line, width) > height

\* FitFromEnd counting one row for every line, whatever its length
RECURSIVE FitFromEndUnwrapped(_, _, _, _, _, _)
FitFromEndUnwrapped(lines, i, currentHeight, startIndex, width, height) ==
    IF i < 0 THEN startIndex
    ELSE IF currentHeight + 1 > height THEN startIndex
    ELSE FitFromEndUnwrapped(lines, i - 1, currentHeight + 1, i, width, height)

\* the backwards loop over the lines: the startIndex it ends with
RECURSIVE FitFromEnd(_, _, _, _, _, _)
FitFromEnd(lines, i, currentHeight, startIndex, width, height) ==
    IF i < 0 THEN startIndex
    ELSE IF Overflows(currentHeight, lines[i + 1], width, height) THEN startIndex
    ELSE FitFromEnd(lines, i - 1,
                    currentHeight + lineVisualHeight(lines[i + 1], width),
                    i, width, height)

\* CharCap with the comparison off by one: a text of exactly MAX characters is cut
CharCapAtLimit(text) ==
    IF Len(text) >= MAXIMUM_RESULT_DISPLAY_CHARACTERS
    THEN Dots \o SliceLast(text, MAXIMUM_RESULT_DISPLAY_CHARACTERS)
    ELSE text

\* the character cap: text.length > MAX => '...' + text.slice(-MAX)
CharCap(text) ==
    IF Len(text) > MAXIMUM_RESULT_DISPLAY_CHARACTERS
    THEN Dots \o SliceLast(text, MAXIMUM_RESULT_DISPLAY_CHARACTERS)
    ELSE text

\* LineAware without the test of the buffer mode
LineAwareInAnyBuffer(height, alt) == Truthy(height)

\* the guard of the line-aware truncation: availableHeight && !isAlternateBuffer
LineAware(height, alt) == Truthy(height) /\ ~alt

\* if (startIndex > 0) text = '...\n' + lines.slice(startIndex).join('\n')
KeepFrom(text, lines, startIndex) ==
    IF startIndex > 0
    THEN Dots \o <<LF>> \o JoinLines(SliceFrom(lines, startIndex))
    ELSE text

\* the loop over the lines of the text, then the cut
TruncateSplit(text, lines, height, width) ==
    KeepFrom(text, lines,
             FitFromEnd(lines, Len(lines) - 1, 0, Len(lines), width, height))

\* the line-aware truncation of an already capped text
TruncateLines(text, height, width) ==
    TruncateSplit(text, SplitLines(text), height, width)

\* the text after the character cap: truncated by lines under the guard
TruncateCapped(capped, height, alt, width) ==
    IF LineAware(height, alt)
    THEN TruncateLines(capped, height[1], width)
    ELSE capped

\* the useMemo callback: the string branch truncates, anything else passes through
truncatedResultDisplay(resultDisplay, height, alt, width) ==
    IF resultDisplay.type = "string"
    THEN [resultDisplay EXCEPT !.text =
             TruncateCapped(CharCap(resultDisplay.text), height, alt, width)]
    ELSE resultDisplay

-----------------------------------------------------------------------------
(* The URL regular expressions.  Positions are JavaScript's: 0-based, and a *)
(* match is the half-open range from its index q to its end e.             *)

ESC == "ESC"    \* the one-character string \x1b
TAB == "TAB"    \* the one-character string \t

LowerLetters == {"a", "b", "c", "d", "e", "f", "g", "h", "i", "j", "k", "l", "m",
                 "n", "o", "p", "q", "r", "s", "t", "u", "v", "w", "x", "y", "z"}
UpperLetters == {"A", "B", "C", "D", "E", "F", "G", "H", "I", "J", "K", "L", "M",
                 "N", "O", "P", "Q", "R", "S", "T", "U", "V", "W", "X", "Y", "Z"}
Digits == {"0", "1", "2", "3", "4", "5", "6", "7", "8", "9"}

\* \s, over the characters of the model
IsSpace(c) == c \in {" ", LF, TAB}

\* the /i flag, on the letters of the literal prefix
ToLower(c) ==
    CASE c = "H" -> "h" [] c = "T" -> "t" [] c = "P" -> "p" [] c = "S" -> "s"
      [] OTHER -> c

\* the regular expressions of the source, by the place that defines them
Linkified == "LinkifiedText.tsx:18"   \* /(https?:\/\/[^\s)]+)/g, also AnsiOutput.tsx:21
UrlUtils  == "urlUtils.ts:13"         \* /(https?:\/\/[^\s]*[^.,;:!?\s)\]}])/i
Strict    == "LinkifiedText.tsx:62"   \* /(https?:\/\/[a-zA-Z0-9-._~:/?#[\]@!$&'()*+,;=%]+[...])/i
Regexes == {Linkified, UrlUtils, Strict}

IgnoreCase(re) == re # Linkified

\* [a-zA-Z0-9-._~:/?#[\]@!$&'()*+,;=%]
StrictBodyClass ==
    LowerLetters \cup UpperLetters \cup Digits \cup
    {"-", ".", "_", "~", ":", "/", "?", "#", "[", "]", "@", "!", "$", "&", "'",
     "(", ")", "*", "+", ",", ";", "=", "%"}

\* [a-zA-Z0-9-_~/?#[\]@!$&'(*+=%]
StrictLastClass ==
    LowerLetters \cup UpperLetters \cup Digits \cup
    {"-", "_", "~", "/", "?", "#", "[", "]", "@", "!", "$", "&", "'",
     "(", "*", "+", "=", "%"}

\* the class the greedy repetition runs over
BodyChar(re, c) ==
    CASE re = Linkified -> ~IsSpace(c) /\ c # ")"                \* [^\s)]
      [] re = UrlUtils  -> ~IsSpace(c)                            \* [^\s]
      [] re = Strict    -> c \in StrictBodyClass

\* the class of the character the match must end on
LastChar(re, c) ==
    CASE re = Linkified -> ~IsSpace(c) /\ c # ")"
      [] re = UrlUtils  -> ~IsSpace(c) /\
                           c \notin {".", ",", ";", ":", "!", "?", ")", "]", "}"}
      [] re = Strict    -> c \in StrictLastClass

\* the least number of characters after the scheme: X+ is 1, X*Y is 1, X+Y is 2
MinBody(re) == IF re = Strict THEN 2 ELSE 1

\* does the literal lit stand at position q of text
LiteralAt(re, text, q, lit) ==
    /\ q + Len(lit) <= Len(text)
    /\ \A k \in 1..Len(lit) :
          (IF IgnoreCase(re) THEN ToLower(text[q + k]) ELSE text[q + k]) = lit[k]

\* https?:\/\/ at position q: the position after it, or -1
SchemeEnd(re, text, q) ==
    IF LiteralAt(re, text, q, <<"h", "t", "t", "p", "s", ":", "/", "/">>) THEN q + 8
    ELSE IF LiteralAt(re, text, q, <<"h", "t", "t", "p", ":", "/", "/">>) THEN q + 7
    ELSE -1

\* the least and the greatest element of a set of positions, or none
Least(S, none) == IF S = {} THEN none ELSE CHOOSE j \in S : \A k \in S : j <= k
Greatest(S, none) == IF S = {} THEN none ELSE CHOOSE j \in S : \A k \in S : k <= j

\* the end of the longest run of body characters from s on
RunEnd(re, text, s) ==
    Least({j \in s..(Len(text) - 1) : ~BodyChar(re, text[j + 1])}, Len(text))

\* the last end in the run up to r where the final class matches, or -1
BacktrackEnd(re, text, s, r) ==
    Greatest({e \in (s + MinBody(re))..r : LastChar(re, text[e])}, -1)

\* the end of the match whose scheme ends at s, or -1
BodyEnd(re, text, s) ==
    IF s = -1 THEN -1 ELSE BacktrackEnd(re, text, s, RunEnd(re, text, s))

\* the end of the match of re that starts exactly at q, or -1: the greedy
\* repetition takes the longest run of body characters and backtracks to the
\* last position where the final class matches
MatchEnd(re, text, q) == BodyEnd(re, text, SchemeEnd(re, text, q))

\* the index of the first match at or after from, or -1 (RegExp exec's scan)
FirstMatch(re, text, from) ==
    Least({q \in from..(Len(text) - 1) :
              /\ ToLower(text[q + 1]) = "h"
              /\ MatchEnd(re, text, q) # -1},
          -1)

\* SplitFrom for a regex without the capture group: the matches are dropped
RECURSIVE SplitFromWithoutCapture(_, _, _)
DropMatch(re, text, p, q) ==
    IF q = -1 THEN <<SubSeq(text, p + 1, Len(text))>>
    ELSE <<SubSeq(text, p + 1, q)>>
         \o SplitFromWithoutCapture(re, text, MatchEnd(re, text, q))

SplitFromWithoutCapture(re, text, p) ==
    DropMatch(re, text, p, FirstMatch(re, text, p))

\* text.split(re) with the one capture group: the pieces between the matches
\* and, after each piece but the last, the captured match
RECURSIVE SplitFrom(_, _, _)
\* the piece before the match from q to e, the captured match, and the rest
SplitMatch(re, text, p, q, e) ==
    <<SubSeq(text, p + 1, q), SubSeq(text, q + 1, e)>> \o SplitFrom(re, text, e)

\* the split from p on, with q the index of the next match or -1
SplitAt(re, text, p, q) ==
    IF q = -1 THEN <<SubSeq(text, p + 1, Len(text))>>
    ELSE SplitMatch(re, text, p, q, MatchEnd(re, text, q))

SplitFrom(re, text, p) == SplitAt(re, text, p, FirstMatch(re, text, p))

Split(re, text) == SplitFrom(re, text, 0)

\* the result of test and the lastIndex it leaves, with q the index of the match
TestAt(re, part, q) ==
    [result |-> q # -1,
     lastIndex |-> IF q = -1 THEN 0 ELSE MatchEnd(re, part, q)]

\* TestGlobal leaving lastIndex where it was when the test fails
TestGlobalKeepingIndex(re, part, li) ==
    IF li > Len(part) \/ FirstMatch(re, part, li) = -1
    THEN [result |-> FALSE, lastIndex |-> li]
    ELSE TestAt(re, part, FirstMatch(re, part, li))

\* URL_REGEX.test(part) on a global-flag regex: the scan starts at lastIndex,
\* a match moves lastIndex to its end and a failure resets it to 0
TestGlobal(re, part, li) ==
    TestAt(re, part, IF li > Len(part) THEN -1 ELSE FirstMatch(re, part, li))

\* isUrl(text): URL_MATCH_PATTERN, the source of URL_REGEX between ^ and $
isUrl(re, text) == Len(text) > 0 /\ MatchEnd(re, text, 0) = Len(text)

-----------------------------------------------------------------------------
(* LinkifiedText and renderToken: the segments of a text *)

Segment(content, url) == [content |-> content, isUrl |-> url]

\* parts.map with URL_REGEX.test(part) on the shared global-flag regex: the
\* segments, and the lastIndex the regex is left with
RECURSIVE ClassifyGlobal(_, _, _)
\* a segment ahead of the segments of the parts after it
PrependSegment(segment, rest) ==
    [segments |-> <<segment>> \o rest.segments, lastIndex |-> rest.lastIndex]

\* the first part, tested with the outcome t, then the parts after it
ClassifyNext(re, parts, t) ==
    PrependSegment(Segment(Head(parts), t.result),
                   ClassifyGlobal(re, Tail(parts), t.lastIndex))

ClassifyGlobal(re, parts, li) ==
    IF parts = << >> THEN [segments |-> << >>, lastIndex |-> li]
    ELSE ClassifyNext(re, parts, TestGlobal(re, Head(parts), li))

\* parts.map with isUrl(part), which keeps no state
ClassifyAnchored(re, parts) ==
    [k \in 1..Len(parts) |-> Segment(parts[k], isUrl(re, parts[k]))]

\* LinkifiedText: an empty text is returned as one plain Text, anything else
\* is split on URL_REGEX and each part is a Link or a Text
LinkifiedText(children, li) ==
    IF children = << >>
    THEN [segments |-> <<Segment(children, FALSE)>>, lastIndex |-> li]
    ELSE ClassifyGlobal(Linkified, Split(Linkified, children), li)

\* renderToken of AnsiOutput.tsx: the file's own global-flag URL_REGEX
renderTokenGlobal(token, li) ==
    ClassifyGlobal(Linkified, Split(Linkified, token.text), li)

\* renderToken of the urlUtils-based AnsiOutputText: split on the imported
\* URL_REGEX, classify with isUrl
renderToken(re, token) == ClassifyAnchored(re, Split(re, token.text))

\* the contents of the segments, in order
RECURSIVE Concat(_)
Concat(segments) ==
    IF segments = << >> THEN << >>
    ELSE Head(segments).content \o Concat(Tail(segments))

-----------------------------------------------------------------------------
(* AnsiOutputText: the trailing window of a styled document *)

\* lastLines taking the window from the start of the document: data.slice(0, n)
firstLines(data, availableTerminalHeight) ==
    SubSeq(data, 1,
           Min(Len(data),
               IF Truthy(availableTerminalHeight) /\ availableTerminalHeight[1] > 0
               THEN availableTerminalHeight[1]
               ELSE DEFAULT_HEIGHT))

\* data.slice(-(availableTerminalHeight && availableTerminalHeight > 0
\*              ? availableTerminalHeight : DEFAULT_HEIGHT))
lastLines(data, availableTerminalHeight) ==
    SliceLast(data,
              IF Truthy(availableTerminalHeight) /\ availableTerminalHeight[1] > 0
              THEN availableTerminalHeight[1]
              ELSE DEFAULT_HEIGHT)

\* the tokens of one line, left to right, threading lastIndex
RECURSIVE RenderLine(_, _, _, _)
\* a rendered token ahead of the tokens after it
PrependToken(first, rest) ==
    [row |-> <<first.segments>> \o rest.row, lastIndex |-> rest.lastIndex]

\* the first token, rendered as first, then the tokens after it
RenderNextToken(version, re, line, first) ==
    PrependToken(first, RenderLine(version, re, Tail(line), first.lastIndex))

\* line.map(renderToken), by the renderToken of the file
RenderLine(version, re, line, li) ==
    IF line = << >> THEN [row |-> << >>, lastIndex |-> li]
    ELSE RenderNextToken(version, re, line,
                         IF version = "AnsiOutput.tsx"
                         THEN renderTokenGlobal(Head(line), li)
                         ELSE [segments |-> renderToken(re, Head(line)),
                               lastIndex |-> li])

\* the lines of the window, top to bottom; an empty line renders null
RECURSIVE RenderLines(_, _, _, _)
\* a rendered line ahead of the lines after it
PrependLine(first, rest) ==
    [rows |-> <<first.row>> \o rest.rows, lastIndex |-> rest.lastIndex]

\* the first line, rendered as first, then the lines after it
RenderNextLine(version, re, lines, first) ==
    PrependLine(first, RenderLines(version, re, Tail(lines), first.lastIndex))

RenderLines(version, re, lines, li) ==
    IF lines = << >> THEN [rows |-> << >>, lastIndex |-> li]
    ELSE RenderNextLine(version, re, lines, RenderLine(version, re, Head(lines), li))

\* the element returned for the window and its rendered lines
AnsiElement(window, out) ==
    [threw |-> FALSE, lastLines |-> window, rows |-> out.rows,
     lastIndex |-> out.lastIndex]

\* lastLines.map over the window
RenderWindow(version, re, window, li) ==
    AnsiElement(window, RenderLines(version, re, window, li))

\* AnsiOutputText; data that is no array has no slice method and the call throws
AnsiOutputText(version, re, data, availableTerminalHeight, li) ==
    IF ~data.isArray
    THEN [threw |-> TRUE, lastLines |-> << >>, rows |-> << >>, lastIndex |-> li]
    ELSE RenderWindow(version, re, lastLines(data.lines, availableTerminalHeight), li)

-----------------------------------------------------------------------------
(* ToolResultDisplay: the dispatch on the payload *)

\* the payloads: undefined, a string, or an object with its own keys; an
\* object that is an array is a styled document (AnsiOutput) of lines
UndefinedPayload ==
    [type |-> "undefined", text |-> << >>, keys |-> {}, isArray |-> FALSE, lines |-> << >>]
StringPayload(text) ==
    [type |-> "string", text |-> text, keys |-> {}, isArray |-> FALSE, lines |-> << >>]
ObjectPayload(keys) ==
    [type |-> "object", text |-> << >>, keys |-> keys, isArray |-> FALSE, lines |-> << >>]
AnsiPayload(lines) ==
    [type |-> "object", text |-> << >>, keys |-> {}, isArray |-> TRUE, lines |-> lines]

\* !truncatedResultDisplay: undefined and the empty string are falsy
Falsy(value) ==
    value.type = "undefined" \/ (value.type = "string" /\ value.text = << >>)

NoChild == [threw |-> FALSE, segments |-> << >>, lastLines |-> << >>, rows |-> << >>]

Instruction(branch, text, width, height, child) ==
    [branch |-> branch, text |-> text, width |-> width, height |-> height,
     child |-> child]

\* renderOutputAsMarkdown without the override by the height budget
renderOutputAsMarkdownAsRequested(prop, height, alt) ==
    IF IsPresent(prop) THEN prop[1] ELSE TRUE

\* renderOutputAsMarkdown: true by default, forced to false by a height budget
\* outside the alternate buffer
renderOutputAsMarkdown(prop, height, alt) ==
    IF Truthy(height) /\ ~alt THEN FALSE
    ELSE IF IsPresent(prop) THEN prop[1] ELSE TRUE

\* Branch with the todos test ahead of the fileDiff test
BranchTodosFirst(value, markdown) ==
    IF Falsy(value) THEN "null"
    ELSE IF value.type = "string" /\ markdown THEN "MarkdownDisplay"
    ELSE IF value.type = "string" /\ ~markdown THEN "LinkifiedText"
    ELSE IF value.type = "object" /\ "todos" \in value.keys THEN "todos"
    ELSE IF value.type = "object" /\ "fileDiff" \in value.keys THEN "DiffRenderer"
    ELSE "AnsiOutputText"

\* the chain of conditionals of the returned element: the branch taken
Branch(value, markdown) ==
    IF Falsy(value) THEN "null"
    ELSE IF value.type = "string" /\ markdown THEN "MarkdownDisplay"
    ELSE IF value.type = "string" /\ ~markdown THEN "LinkifiedText"
    ELSE IF value.type = "object" /\ "fileDiff" \in value.keys THEN "DiffRenderer"
    ELSE IF value.type = "object" /\ "todos" \in value.keys THEN "todos"
    ELSE "AnsiOutputText"

\* what AnsiOutputText returned, as the child of an element
AnsiChild(c) ==
    [NoChild EXCEPT !.threw = c.threw, !.lastLines = c.lastLines, !.rows = c.rows]

\* an element whose child is not rendered by this model
Childless(branch, text, width, height, li) ==
    [out |-> Instruction(branch, text, width, height, NoChild), lastIndex |-> li]

\* <LinkifiedText>{truncatedResultDisplay}</LinkifiedText>, rendered as c
WithLinkifiedText(branch, text, width, li, c) ==
    [out |-> Instruction(branch, text, width, Undefined,
                         [NoChild EXCEPT !.segments = c.segments]),
     lastIndex |-> [li EXCEPT !.LinkifiedText = c.lastIndex]]

\* <AnsiOutputText data=... availableTerminalHeight=... />, rendered as c
WithAnsiOutputText(branch, width, height, li, c) ==
    [out |-> Instruction(branch, << >>, width, height, AnsiChild(c)),
     lastIndex |-> [li EXCEPT !.AnsiOutput = c.lastIndex]]

\* the element of the branch taken
Element(branch, value, height, width, li) ==
    CASE branch = "null" -> Childless(branch, << >>, width, Undefined, li)
      [] branch = "MarkdownDisplay" ->
            Childless(branch, value.text, width, Undefined, li)
      [] branch = "LinkifiedText" ->
            WithLinkifiedText(branch, value.text, width, li,
                              LinkifiedText(value.text, li.LinkifiedText))
      [] branch = "DiffRenderer" -> Childless(branch, << >>, width, height, li)
      [] branch = "todos" -> Childless(branch, << >>, width, Undefined, li)
      [] branch = "AnsiOutputText" ->
            WithAnsiOutputText(branch, width, height, li,
                               AnsiOutputText("AnsiOutput.tsx", Linkified, value,
                                              height, li.AnsiOutput))

\* the returned element, and the lastIndex values the children leave behind
Dispatch(value, markdown, height, width, li) ==
    Element(Branch(value, markdown), value, height, width, li)

-----------------------------------------------------------------------------
(* The inputs of the renders *)

RECURSIVE StringsUpTo(_, _)
StringsUpTo(alphabet, n) ==
    IF n = 0 THEN {<< >>}
    ELSE LET shorter == StringsUpTo(alphabet, n - 1)
         IN  shorter \cup {Append(t, c) : t \in shorter, c \in alphabet}

Http == <<"h", "t", "t", "p", ":", "/", "/">>
Https == <<"h", "t", "t", "p", "s", ":", "/", "/">>
HttpUpper == <<"H", "T", "T", "P", ":", "/", "/">>

ShortTexts == StringsUpTo({"a", LF}, MaxLen)

\* the lines of lengths 5, 20 and 3 of the wrapping test, and texts with URLs
SampleTexts ==
    { Fill(5) \o <<LF>> \o Fill(20) \o <<LF>> \o Fill(3),
      <<"G", "o", " ">> \o Https \o <<"a", ".", "c">> \o <<".">>,
      Https \o <<"a", ",", " ">> \o Http \o <<"b">>,
      <<"(">> \o Http \o <<"a", ")", LF>> \o Https \o <<"b", "?">> }

\* texts around the character cap, with and without line breaks
LongTexts ==
    { Fill(MAXIMUM_RESULT_DISPLAY_CHARACTERS - Len(tail) + k) \o tail :
        tail \in {<< >>, <<LF, "c">>}, k \in 0..CapSlack }

Texts == ShortTexts \cup SampleTexts \cup LongTexts

Token(text) == [text |-> text]

\* line i of a styled document: every fourth line is empty, the others hold a
\* token of i characters and a token with a URL
DocLine(i) ==
    IF i % 4 = 0 THEN << >>
    ELSE <<Token(Fill(i)),
           Token(IF i % 2 = 0 THEN <<" ">> \o Https \o <<"a", ".">>
                 ELSE Http \o <<"b", ")">>)>>

Doc(m) == [i \in 1..m |-> DocLine(i)]

ResultDisplays ==
    {UndefinedPayload}
    \cup {StringPayload(t) : t \in Texts}
    \cup {ObjectPayload(k) : k \in {{}, {"text"}, {"fileDiff", "fileName"}, {"todos"},
                                     {"fileDiff", "fileName", "todos"}}}
    \cup {AnsiPayload(Doc(m)) : m \in {0, 1, 5, MaxLines}}

AvailableTerminalHeights == {Undefined, Some(0), Some(7), Some(10), Some(11)}

TerminalWidths == {3, 4, 5, 10, 84}

OptionalBooleans == {Undefined, Some(TRUE), Some(FALSE)}

\* the availableTerminalHeight prop of AnsiOutputText on its own
AnsiHeights ==
    {Undefined, Some(-1), Some(0), Some(1), Some(3), Some(DEFAULT_HEIGHT - 1),
     Some(DEFAULT_HEIGHT), Some(DEFAULT_HEIGHT + 1), Some(MaxLines + 1)}

-----------------------------------------------------------------------------
(* The renders *)

\* the state of the components that a specification does not render
NoProps ==
    [resultDisplay |-> UndefinedPayload, availableTerminalHeight |-> Undefined,
     terminalWidth |-> 0, renderOutputAsMarkdown |-> Undefined]
Unmounted == Instruction("unmounted", << >>, 0, Undefined, NoChild)
NoSeg == [component |-> "none", pending |-> FALSE, text |-> << >>, segments |-> << >>]
NoAnsi == [pending |-> FALSE,
           job |-> [version |-> "none", re |-> Linkified, data |-> AnsiPayload(<< >>),
                    availableTerminalHeight |-> Undefined, out |-> NoChild]]

\* ToolResultDisplay is about to be mounted with some props in some buffer mode
\* the widths a payload is rendered at: every width for the short texts and
\* the objects, a narrow and a wide terminal for the texts around the cap
WidthsFor(resultDisplay) ==
    IF Len(resultDisplay.text) >= MAXIMUM_RESULT_DISPLAY_CHARACTERS
    THEN {10, 84} ELSE TerminalWidths

\* the props a mount may start with; the texts around the cap come with a
\* budget or none, and with markdown by default or refused
InitialProps ==
    { p \in [resultDisplay : ResultDisplays,
             availableTerminalHeight : AvailableTerminalHeights,
             terminalWidth : TerminalWidths,
             renderOutputAsMarkdown : OptionalBooleans] :
        /\ p.terminalWidth \in WidthsFor(p.resultDisplay)
        /\ Len(p.resultDisplay.text) >= MAXIMUM_RESULT_DISPLAY_CHARACTERS =>
              /\ p.availableTerminalHeight \in {Undefined, Some(10)}
              /\ p.renderOutputAsMarkdown \in {Undefined, Some(FALSE)} }

Init ==
    /\ props \in InitialProps
    /\ isAlternateBuffer \in BOOLEAN
    /\ memo = [deps |-> << >>, value |-> UndefinedPayload]
    /\ rendered = Unmounted
    /\ seg = NoSeg
    /\ ansi = NoAnsi
    /\ lastIndex = [LinkifiedText |-> 0, AnsiOutput |-> 0]

\* useMemo: the value is computed anew when a dependency changed
useMemo(resultDisplay, height, alt, width) ==
    IF memo.deps = <<resultDisplay, height, alt, width>> THEN memo.value
    ELSE truncatedResultDisplay(resultDisplay, height, alt, width)

\* the state a render leaves: the memo, the element d.out and the lastIndex
Return(p, alt, height, width, value, d) ==
    /\ props' = p
    /\ isAlternateBuffer' = alt
    /\ memo' = [deps |-> <<p.resultDisplay, height, alt, width>>, value |-> value]
    /\ rendered' = d.out
    /\ lastIndex' = d.lastIndex
    /\ UNCHANGED <<seg, ansi>>

\* the part of a render after useMemo
RenderValue(p, alt, height, width, value) ==
    Return(p, alt, height, width, value,
           Dispatch(value,
                    renderOutputAsMarkdown(p.renderOutputAsMarkdown, height, alt),
                    height, width, lastIndex))

\* the part of a render after the height budget and the child width
RenderAt(p, alt, height, width) ==
    RenderValue(p, alt, height, width,
                useMemo(p.resultDisplay, height, alt, width))

\* one render of ToolResultDisplay with props p in buffer mode alt
Render(p, alt) ==
    RenderAt(p, alt, availableHeight(p.availableTerminalHeight),
             childWidth(p.terminalWidth))

\* the first render
Mount ==
    /\ rendered = Unmounted
    /\ Render(props, isAlternateBuffer)

\* a render caused by the parent, with the props as they were
Rerender ==
    /\ rendered # Unmounted
    /\ Render(props, isAlternateBuffer)

\* the host enters or leaves the alternate buffer and the hook re-renders
SwitchBuffer ==
    /\ rendered # Unmounted
    /\ Render(props, ~isAlternateBuffer)

\* the terminal is resized to another width
Resize ==
    /\ rendered # Unmounted
    /\ \E w \in WidthsFor(props.resultDisplay) \ {props.terminalWidth} :
          Render([props EXCEPT !.terminalWidth = w], isAlternateBuffer)

Next == Mount \/ Rerender \/ SwitchBuffer \/ Resize

Spec == Init /\ [][Next]_vars

-----------------------------------------------------------------------------
(* LinkifiedText and AnsiOutputText rendered on their own *)

\* the pieces the texts with URLs are made of: one character of every class
\* the regular expressions tell apart, and a second scheme
BodyChunks ==
    {<<"a">>, <<".">>, <<"?">>, <<")">>, <<"\"">>, <<"<">>, <<ESC>>, <<" ">>, Http}

RECURSIVE ChunkTexts(_)
ChunkTexts(n) ==
    IF n = 0 THEN {<< >>}
    ELSE LET shorter == ChunkTexts(n - 1)
         IN  shorter \cup {t \o c : t \in shorter, c \in BodyChunks}

UrlTexts ==
    {scheme \o body : scheme \in {<< >>, Https, HttpUpper},
                      body \in ChunkTexts(MaxBody)}

\* the styled documents: one line with one token for every text, and the
\* documents of 0 to MaxLines lines
AnsiJobs ==
    [version : {"AnsiOutput.tsx"}, re : {Linkified},
     data : {AnsiPayload(<<<<Token(t)>>>>) : t \in UrlTexts},
     availableTerminalHeight : {Undefined}, out : {NoChild}]
    \cup
    [version : {"part_000"}, re : {UrlUtils, Strict},
     data : {AnsiPayload(<<<<Token(t)>>>>) : t \in UrlTexts},
     availableTerminalHeight : {Undefined}, out : {NoChild}]
    \cup
    [version : {"AnsiOutput.tsx"}, re : {Linkified},
     data : {AnsiPayload(Doc(m)) : m \in 0..MaxLines},
     availableTerminalHeight : AnsiHeights, out : {NoChild}]
    \cup
    [version : {"part_000"}, re : {UrlUtils, Strict},
     data : {AnsiPayload(Doc(m)) : m \in 0..MaxLines},
     availableTerminalHeight : AnsiHeights, out : {NoChild}]

\* either component is about to be rendered once
InitChildren ==
    /\ props = NoProps
    /\ isAlternateBuffer = FALSE
    /\ memo = [deps |-> << >>, value |-> UndefinedPayload]
    /\ rendered = Unmounted
    /\ lastIndex = [LinkifiedText |-> 0, AnsiOutput |-> 0]
    /\ \/ /\ seg \in [component : {"LinkifiedText"}, pending : {TRUE},
                       text : UrlTexts, segments : {<< >>}]
          /\ ansi = NoAnsi
       \/ /\ seg = NoSeg
          /\ ansi \in [pending : {TRUE}, job : AnsiJobs]

\* one render of LinkifiedText with the text as its children
\* the state LinkifiedText leaves when it rendered c
ReturnLinkifiedText(c) ==
    /\ seg' = [seg EXCEPT !.pending = FALSE, !.segments = c.segments]
    /\ lastIndex' = [lastIndex EXCEPT !.LinkifiedText = c.lastIndex]

RenderLinkifiedText ==
    /\ seg.pending
    /\ ReturnLinkifiedText(LinkifiedText(seg.text, lastIndex.LinkifiedText))
    /\ UNCHANGED <<props, isAlternateBuffer, memo, rendered, ansi>>

\* the state AnsiOutputText leaves when it rendered the job j as c
ReturnAnsiOutputText(j, c) ==
    /\ ansi' = [pending |-> FALSE, job |-> [j EXCEPT !.out = AnsiChild(c)]]
    /\ lastIndex' = [lastIndex EXCEPT !.AnsiOutput = c.lastIndex]

\* AnsiOutputText with the props of the job j
RenderJob(j) ==
    ReturnAnsiOutputText(j, AnsiOutputText(j.version, j.re, j.data,
                                           j.availableTerminalHeight,
                                           lastIndex.AnsiOutput))

\* one render of AnsiOutputText
RenderAnsiOutputText ==
    /\ ansi.pending
    /\ RenderJob(ansi.job)
    /\ UNCHANGED <<props, isAlternateBuffer, memo, rendered, seg>>

NextChildren == RenderLinkifiedText \/ RenderAnsiOutputText

SpecChildren == InitChildren /\ [][NextChildren]_vars

-----------------------------------------------------------------------------
(* LinkifiedText and AnsiOutputText rendered again and again, each time     *)
(* with another text; the module-level URL_REGEX objects live on between    *)
(* the renders                                                              *)

\* the pieces of those texts: a URL, a URL that a parenthesis ends, a word
\* and a space
UrlPieces == {Https \o <<"a">>, Http \o <<"b", ")">>, <<"a">>, <<" ">>}

RECURSIVE PieceTexts(_)
PieceTexts(n) ==
    IF n = 0 THEN {<< >>}
    ELSE LET shorter == PieceTexts(n - 1)
         IN  shorter \cup {t \o c : t \in shorter, c \in UrlPieces}

SequenceTexts == PieceTexts(MaxSeq)

\* a styled document of one line with two tokens, the second one a URL
SequenceJobs ==
    [version : {"AnsiOutput.tsx"}, re : {Linkified},
     data : {AnsiPayload(<<<<Token(t), Token(Https \o <<"b">>)>>>>) :
                t \in SequenceTexts},
     availableTerminalHeight : {Undefined}, out : {NoChild}]

\* nothing was rendered yet: the regular expressions are as the modules
\* created them
InitSequence ==
    /\ props = NoProps
    /\ isAlternateBuffer = FALSE
    /\ memo = [deps |-> << >>, value |-> UndefinedPayload]
    /\ rendered = Unmounted
    /\ lastIndex = [LinkifiedText |-> 0, AnsiOutput |-> 0]
    /\ seg = NoSeg
    /\ ansi = NoAnsi

\* the parent is about to render LinkifiedText with some children
SetChildren ==
    /\ ~seg.pending /\ ~ansi.pending
    /\ \E t \in SequenceTexts :
          seg' = [component |-> "LinkifiedText", pending |-> TRUE, text |-> t,
                  segments |-> << >>]
    /\ ansi' = NoAnsi
    /\ UNCHANGED <<props, isAlternateBuffer, memo, rendered, lastIndex>>

\* the parent is about to render AnsiOutputText with some data
SetData ==
    /\ ~seg.pending /\ ~ansi.pending
    /\ \E j \in SequenceJobs : ansi' = [pending |-> TRUE, job |-> j]
    /\ seg' = NoSeg
    /\ UNCHANGED <<props, isAlternateBuffer, memo, rendered, lastIndex>>

NextSequence ==
    SetChildren \/ RenderLinkifiedText \/ SetData \/ RenderAnsiOutputText

SpecSequence == InitSequence /\ [][NextSequence]_vars

-----------------------------------------------------------------------------
(* Properties of ToolResultDisplay, under Spec *)

Mounted == rendered # Unmounted
Payload == props.resultDisplay
IsString == Payload.type = "string"
Budget == availableHeight(props.availableTerminalHeight)
Width == childWidth(props.terminalWidth)
\* line-aware truncation was applied in the last render
Applied == Mounted /\ IsString /\ IsPresent(Budget) /\ ~isAlternateBuffer
\* the text the truncation returned
Output == memo.value.text
Cap == MAXIMUM_RESULT_DISPLAY_CHARACTERS

\* the estimated visual rows of a text: the sum over its lines of
\* ceil(max(1, length) / width)
RECURSIVE SumRows(_, _)
SumRows(lines, width) ==
    IF lines = << >> THEN 0
    ELSE CeilDiv(Max(1, Len(Head(lines))), width) + SumRows(Tail(lines), width)

EstimatedRows(text, width) == SumRows(SplitLines(text), width)

\* C1: whenever line-aware truncation is applied at a positive render width,
\* the returned text, elision line included, has at most availableHeight
\* estimated rows.
C1_RowsWithinBudget ==
    (Applied /\ Width > 0) => EstimatedRows(Output, Width) <= Budget[1]

\* the character cap as the claim states it, of text t with result out
CappedAsStated(t, out) ==
    IF Len(t) > Cap
    THEN /\ Len(out) = Cap + 3
         /\ SubSeq(out, 1, 3) = Dots
         /\ SliceLast(out, Cap) = SliceLast(t, Cap)
    ELSE out = t

\* C2, as stated: for a text longer than the cap the truncation returns a
\* string of length cap + 3 that starts with "..." and ends with the last cap
\* characters of the text.
C2_ReturnsCappedText ==
    (Mounted /\ IsString /\ Len(Payload.text) > Cap) =>
        CappedAsStated(Payload.text, Output)

\* C2, amended: the character-cap step yields, for a text longer than the cap,
\* a string of length cap + 3 that starts with "..." and ends with the last
\* cap characters, and leaves a text of at most cap characters unchanged; the
\* truncation returns that string whenever line-aware truncation is not applied.
C2_CharCapStep ==
    (Mounted /\ IsString) =>
        /\ CappedAsStated(Payload.text, CharCap(Payload.text))
        /\ ~Applied => CappedAsStated(Payload.text, Output)

C2_Witness ==
    /\ Mounted /\ IsString /\ ~Applied
    /\ Len(Payload.text) > Cap
    /\ Len(Output) = Cap + 3

\* C6: in the alternate buffer, or without a height budget, the truncation
\* returns the character-capped text exactly.
C6_NoLineTruncation ==
    (Mounted /\ IsString /\ (isAlternateBuffer \/ ~IsPresent(Budget))) =>
        Output = CharCap(Payload.text)

\* the alternate buffer with a budget that the text's lines exceed
C6_Witness ==
    /\ Mounted /\ IsString /\ isAlternateBuffer /\ IsPresent(Budget)
    /\ Width > 0
    /\ EstimatedRows(Payload.text, Width) > Budget[1]
    /\ Output = Payload.text

\* C8: an object with a fileDiff field goes to the diff renderer, also when
\* it has a todos field; an object with todos and no fileDiff renders
\* nothing; every other object goes to the styled-document renderer.
C8_OrderedDispatch ==
    (Mounted /\ Payload.type = "object") =>
        rendered.branch =
            IF "fileDiff" \in Payload.keys THEN "DiffRenderer"
            ELSE IF "todos" \in Payload.keys THEN "todos"
            ELSE "AnsiOutputText"

C8_Witness ==
    /\ Mounted /\ Payload.type = "object"
    /\ {"fileDiff", "todos"} \subseteq Payload.keys
    /\ rendered.branch = "DiffRenderer"

\* an absent value, an empty string or an empty object
EmptyPayload(p) ==
    \/ p.type = "undefined"
    \/ p.type = "string" /\ p.text = << >>
    \/ p.type = "object" /\ p.keys = {} /\ ~p.isArray

\* C9: an empty payload renders nothing: no renderer is invoked and nothing
\* is thrown.
C9_EmptyRendersNothing ==
    (Mounted /\ EmptyPayload(Payload)) =>
        rendered.branch = "null" /\ ~rendered.child.threw

\* the caller's markdown preference, true by default
Requested ==
    IF IsPresent(props.renderOutputAsMarkdown)
    THEN props.renderOutputAsMarkdown[1] ELSE TRUE

MarkdownExpected == Requested /\ ~(IsPresent(Budget) /\ ~isAlternateBuffer)

C11_NeverLonger ==
    (Mounted /\ IsString) =>
        /\ Len(Output) <= Len(Payload.text)
        /\ Len(Output) <= Cap + Len(Dots)

\* the estimated rows of a line: ceil(max(1, length) / width), for width # 0
RowsOf(line, width) ==
    IF width > 0 THEN CeilDiv(Max(1, Len(line)), width)
    ELSE 0 - (Max(1, Len(line)) \div (0 - width))

\* the summed estimated rows of the last k lines
RECURSIVE SuffixRows(_, _, _)
SuffixRows(lines, k, width) ==
    IF k = 0 THEN 0
    ELSE RowsOf(lines[Len(lines) - k + 1], width) + SuffixRows(lines, k - 1, width)

\* the last k lines fit the height; at width 0 a line takes infinitely many rows
SuffixFits(lines, k, width, height) ==
    k = 0 \/ (width # 0 /\ SuffixRows(lines, k, width) <= height)

\* the length of the longest trailing suffix of the lines that fits
LongestFit(lines, width, height) ==
    CHOOSE k \in 0..Len(lines) :
        /\ SuffixFits(lines, k, width, height)
        /\ \A j \in 0..Len(lines) : SuffixFits(lines, j, width, height) => j <= k

\* the text that keeps the last k of the lines: unchanged when all are kept,
\* and behind the elision line otherwise
KeptBehindElision(text, lines, k) ==
    IF k = Len(lines) THEN text
    ELSE Dots \o <<LF>> \o JoinLines(SliceLast(lines, k))

\* C12: when line-aware truncation applies, the output keeps exactly the
\* longest trailing suffix of the lines of the capped text whose summed
\* estimated rows do not exceed availableHeight; the elision line "...\n" is
\* prepended if and only if a leading line is dropped, and the text is
\* returned unchanged when none is.
C12_LongestFittingSuffix ==
    Applied =>
        Output = KeptBehindElision(
                     CharCap(Payload.text),
                     SplitLines(CharCap(Payload.text)),
                     LongestFit(SplitLines(CharCap(Payload.text)), Width, Budget[1]))

\* lines of 5, 20 and 3 characters at width 6 with height 5: the last two stay
C12_Witness ==
    /\ Applied /\ Width = 6 /\ Budget = Some(5)
    /\ Payload.text = Fill(5) \o <<LF>> \o Fill(20) \o <<LF>> \o Fill(3)
    /\ Output = Dots \o <<LF>> \o Fill(20) \o <<LF>> \o Fill(3)

\* the final line of a text
FinalLine(text) == SplitLines(text)[Len(SplitLines(text))]

\* C13: when line-aware truncation applies to a non-empty text, the output
\* ends with the final line of the character-capped text.
C13_EndsWithFinalLine ==
    (Applied /\ Payload.text # << >>) =>
        FinalLine(Output) = FinalLine(CharCap(Payload.text))

\* C15: for every terminalWidth > 0 the render width, terminalWidth minus 4,
\* is > 0, and every row estimate of the line-aware truncation is an integer
\* >= 1.
C15_PositiveRenderWidth ==
    (Mounted /\ props.terminalWidth > 0) =>
        /\ Width > 0
        /\ Applied =>
              \A k \in 1..Len(SplitLines(CharCap(Payload.text))) :
                  lineVisualHeight(SplitLines(CharCap(Payload.text))[k], Width) >= 1

-----------------------------------------------------------------------------
(* Properties of the segments and of the window, under SpecChildren *)

\* every text that the last render split, with its segments
Segmented ==
    (IF seg.component = "LinkifiedText" /\ ~seg.pending
     THEN {[text |-> seg.text, segments |-> seg.segments]} ELSE {})
    \cup
    UNION { { [text |-> ansi.job.out.lastLines[i][j].text,
               segments |-> ansi.job.out.rows[i][j]] :
              j \in 1..Len(ansi.job.out.rows[i]) } :
            i \in 1..Len(ansi.job.out.rows) }

\* the segments that were linked as URLs
Linked == UNION { {s.segments[k] : k \in {n \in 1..Len(s.segments) : s.segments[n].isUrl}} :
                  s \in Segmented }

\* C3: the contents of the segments of a text, concatenated in order, are
\* the text.
C3_LosslessSplit == \A s \in Segmented : Concat(s.segments) = s.text

\* a text with a URL in its middle, split into three or more segments
C3_Witness ==
    \E s \in Segmented :
        /\ Len(s.segments) >= 3
        /\ s.segments[2].isUrl
        /\ s.segments[1].content # << >>
        /\ s.segments[3].content # << >>

SentencePunctuation == {".", ",", ";", ":", "!", "?"}

\* C4: no segment linked as a URL ends with a sentence-punctuation character.
C4_NoTrailingPunctuation ==
    \A u \in Linked :
        u.content # << >> => u.content[Len(u.content)] \notin SentencePunctuation

UnsafeDelimiters == {"\"", "<", ">", ESC}

\* C5: no URL span contains a double quote, '<', '>' or a control character.
C5_NoUnsafeDelimiter ==
    \A u \in Linked :
        \A k \in 1..Len(u.content) : u.content[k] \notin UnsafeDelimiters

\* the window size of the last AnsiOutputText render
WindowSize ==
    LET h == ansi.job.availableTerminalHeight
    IN  IF IsPresent(h) /\ h[1] > 0 THEN h[1] ELSE 24

\* C7: the window is the last min(M, K) lines of the document, in order and
\* unchanged, so never more than M lines nor more than K.
C7_TrailingWindow ==
    (ansi.job.version # "none" /\ ~ansi.pending) =>
        LET lines == ansi.job.data.lines
            M == Len(lines)
            n == Min(M, WindowSize)
            window == ansi.job.out.lastLines
        IN  /\ Len(window) = n
            /\ \A k \in 1..n : window[k] = lines[M - n + k]
            /\ Len(ansi.job.out.rows) = n

\* a document longer than the default window, rendered without a height
C7_Witness ==
    /\ ansi.job.version # "none" /\ ~ansi.pending
    /\ ~IsPresent(ansi.job.availableTerminalHeight)
    /\ Len(ansi.job.data.lines) > 24
    /\ Len(ansi.job.out.lastLines) = 24

-----------------------------------------------------------------------------
(* Properties of renders that follow one another, under SpecSequence *)

\* C14: after any sequence of renders on any texts, the parts of the last
\* render that are matches of the regular expression (the parts at the even
\* places of the split) are classified as URLs and all other parts are not,
\* and lastIndex of both regular expressions is 0 when a render has finished.
C14_RendersIndependent ==
    /\ lastIndex.LinkifiedText = 0
    /\ lastIndex.AnsiOutput = 0
    /\ \A s \in Segmented :
          /\ \A k \in 1..Len(s.segments) : s.segments[k].isUrl <=> (k % 2 = 0)
          /\ [k \in 1..Len(s.segments) |-> s.segments[k].content]
                 = IF s.text = << >> THEN <<s.text>> ELSE Split(Linkified, s.text)

\* one line whose two tokens both hold a URL: renderToken ran twice on the
\* same regular expression, and tested a URL after a URL
C14_Witness ==
    /\ ansi.job.version = "AnsiOutput.tsx" /\ ~ansi.pending
    /\ Len(ansi.job.out.rows) = 1
    /\ Len(ansi.job.out.rows[1]) = 2
    /\ Len(ansi.job.out.rows[1][1]) >= 5
    /\ ansi.job.out.rows[1][1][2].isUrl
    /\ ansi.job.out.rows[1][1][4].isUrl
    /\ ansi.job.out.rows[1][2][2].isUrl

====
